---- MODULE Spec2Model ----
(***************************************************************************)
(* Precision- and capability-aware dispatch of the CUDA fully connected    *)
(* operators (caffe2/operators/fully_connected_op_gpu.cc).                 *)
(*                                                                         *)
(* A net holds one forward operator (FullyConnectedOp) and one gradient    *)
(* operator (FullyConnectedGradientOp).  Both read the same blob as        *)
(* Input(0).  RunOnDevice of either operator delegates to the matching     *)
(* dispatcher, which picks the template instantiation of DoRunWithType     *)
(* from the element type of Input(0), the float16_compute argument and     *)
(* the major revision of CUDA device 0.                                    *)
(***************************************************************************)
EXTENDS Integers, Sequences, FiniteSets

VARIABLES
    cudaVersion,  \* CUDA_VERSION the file was compiled with
    devMajor,     \* devMajor[d]: cudaDeviceProp.major of device d
    input0,       \* element type of the tensor behind Input(0)
    ops,          \* ops[k]: the operator instance of kind k, or NoOp
    call          \* call[k]: what the current RunOnDevice of ops[k] did

vars == <<cudaVersion, devMajor, input0, ops, call>>

----------------------------------------------------------------------------
(* Bounds of the model *)

NumDevices == 2       \* CUDA devices 0 .. NumDevices-1
MajorSpread == 1      \* device revisions within MajorSpread of the threshold

(* Program constants *)

kFp16CUDADevicePropMajor == 6

TensorCoreCudaVersion == 9000

----------------------------------------------------------------------------
(* Domains *)

DeviceIds == 0 .. (NumDevices - 1)

Majors == (kFp16CUDADevicePropMajor - MajorSpread) ..
          (kFp16CUDADevicePropMajor + MajorSpread)

CudaVersions == {TensorCoreCudaVersion - 1000, TensorCoreCudaVersion}

\* element types a tensor can carry; only the first two are dispatched
ElementTypes == {"float", "float16", "double", "int"}

Kinds == {"FullyConnectedOp", "FullyConnectedGradientOp"}

Engines == {"DefaultEngine", "TensorCoreEngine"}

NoOp == [engine |-> "none"]

FallbackMessage ==
    "CUDA Device does not support FP16 computation, falling back to FP32."

UnsupportedType == "Unsupported type"

\* no RunOnDevice of the operator is in progress or awaiting collection
Idle == [pc |-> "idle", float16_compute |-> FALSE, queried |-> <<>>,
         logged |-> <<>>, invoked |-> <<>>, ret |-> FALSE,
         result |-> FALSE, error |-> ""]

----------------------------------------------------------------------------
(* Collaborators *)

\* GetDeviceProperty(deviceid): the cached cudaDeviceProp of that device
GetDeviceProperty(deviceid) == [major |-> devMajor[deviceid]]

\* op->Input(0).IsType<T>()
InputIsType(op, T) == input0 = T

\* `op->DoRunWithType<...>(); return true;': the routine's result is dropped
ReturnTrueAfterDoRunWithType(float16_compute, queried, logged, inst, r) ==
    [pc |-> "returned", float16_compute |-> float16_compute,
     queried |-> queried, logged |-> logged, invoked |-> <<inst>>,
     ret |-> r, result |-> TRUE, error |-> ""]

\* `return op->DoRunWithType<...>()': the instantiation inst is invoked once,
\* it returns r, and r is what the dispatcher returns.  queried and logged are
\* the device queries and LOG(INFO) lines that preceded the invocation.
ReturnDoRunWithType(float16_compute, queried, logged, inst, r) ==
    [pc |-> "returned", float16_compute |-> float16_compute,
     queried |-> queried, logged |-> logged, invoked |-> <<inst>>,
     ret |-> r, result |-> r, error |-> ""]

\* CAFFE_THROW(msg): the dispatcher is left by an exception
CaffeThrow(float16_compute, msg) ==
    [pc |-> "thrown", float16_compute |-> float16_compute,
     queried |-> <<>>, logged |-> <<>>, invoked |-> <<>>,
     ret |-> FALSE, result |-> FALSE, error |-> msg]

----------------------------------------------------------------------------
(* Template instantiations of DoRunWithType *)

FwdInst(X, W, B, Y, Math) ==
    [X |-> X, W |-> W, B |-> B, Y |-> Y, Math |-> Math]

BwdInst(X, W, dY, B, dX, dW, dB, Math) ==
    [X |-> X, W |-> W, dY |-> dY, B |-> B,
     dX |-> dX, dW |-> dW, dB |-> dB, Math |-> Math]

----------------------------------------------------------------------------
(* Faulty variants of the dispatchers and bindings.  Each differs from the *)
(* code in one place; the properties below are checked to tell them apart. *)

\* forward dispatcher with one slip, selected by bug:
\*   "nolog"      the fallback branch does not LOG
\*   "gt"         prop.major > kFp16CUDADevicePropMajor
\*   "ignoreflag" the hardware is consulted whatever float16_compute is
\*   "halfmath"   the float branch instantiates Math as float16
\*   "opdevice"   the property of the operator's own device is read
FwdVariant(float16_compute, op, r, bug) ==
    IF InputIsType(op, "float") THEN
        ReturnDoRunWithType(float16_compute, <<>>, <<>>,
            FwdInst("float", "float", "float", "float",
                    IF bug = "halfmath" THEN "float16" ELSE "float"), r)
    ELSE IF InputIsType(op, "float16") THEN
        IF float16_compute \/ bug = "ignoreflag" THEN
            LET dev == IF bug = "opdevice" THEN op.gpu_id ELSE 0
                prop == GetDeviceProperty(dev)
                supported ==
                    IF bug = "gt"
                    THEN prop.major > kFp16CUDADevicePropMajor
                    ELSE prop.major >= kFp16CUDADevicePropMajor
            IN
            IF supported THEN
                ReturnDoRunWithType(float16_compute, <<dev>>, <<>>,
                    FwdInst("float16", "float16", "float16", "float16",
                            "float16"), r)
            ELSE
                ReturnDoRunWithType(float16_compute, <<dev>>,
                    IF bug = "nolog" THEN <<>> ELSE <<FallbackMessage>>,
                    FwdInst("float16", "float16", "float16", "float16",
                            "float"), r)
        ELSE
            ReturnDoRunWithType(float16_compute, <<>>, <<>>,
                FwdInst("float16", "float16", "float16", "float16",
                        "float"), r)
    ELSE
        CaffeThrow(float16_compute, UnsupportedType)

Fwd_NoLog(float16_compute, op, r) ==
    FwdVariant(float16_compute, op, r, "nolog")

Fwd_StrictCompare(float16_compute, op, r) ==
    FwdVariant(float16_compute, op, r, "gt")

Fwd_IgnoresFlag(float16_compute, op, r) ==
    FwdVariant(float16_compute, op, r, "ignoreflag")

Fwd_FloatWithHalfMath(float16_compute, op, r) ==
    FwdVariant(float16_compute, op, r, "halfmath")

Fwd_QueriesOwnDevice(float16_compute, op, r) ==
    FwdVariant(float16_compute, op, r, "opdevice")

\* backward dispatcher with one slip, selected by bug:
\*   "gt"          prop.major > kFp16CUDADevicePropMajor
\*   "halfdx"      the float branch instantiates dX as float16
\*   "fallthrough" no CAFFE_THROW: an unsupported type reaches `return false'
BwdVariant(float16_compute, op, r, bug) ==
    IF InputIsType(op, "float") THEN
        ReturnDoRunWithType(float16_compute, <<>>, <<>>,
            BwdInst("float", "float", "float", "float",
                    IF bug = "halfdx" THEN "float16" ELSE "float",
                    "float", "float", "float"), r)
    ELSE IF InputIsType(op, "float16") THEN
        IF float16_compute THEN
            LET prop == GetDeviceProperty(0)
                supported ==
                    IF bug = "gt"
                    THEN prop.major > kFp16CUDADevicePropMajor
                    ELSE prop.major >= kFp16CUDADevicePropMajor
            IN
            IF supported THEN
                ReturnDoRunWithType(float16_compute, <<0>>, <<>>,
                    BwdInst("float16", "float16", "float16", "float16",
                            "float16", "float16", "float16", "float16"), r)
            ELSE
                ReturnDoRunWithType(float16_compute, <<0>>,
                    <<FallbackMessage>>,
                    BwdInst("float16", "float16", "float16", "float16",
                            "float16", "float16", "float16", "float"), r)
        ELSE
            ReturnDoRunWithType(float16_compute, <<>>, <<>>,
                BwdInst("float16", "float16", "float16", "float16",
                        "float16", "float16", "float16", "float"), r)
    ELSE IF bug = "fallthrough" THEN
        [pc |-> "returned", float16_compute |-> float16_compute,
         queried |-> <<>>, logged |-> <<>>, invoked |-> <<>>,
         ret |-> FALSE, result |-> FALSE, error |-> ""]
    ELSE
        CaffeThrow(float16_compute, UnsupportedType)

Bwd_StrictCompare(float16_compute, op, r) ==
    BwdVariant(float16_compute, op, r, "gt")

Bwd_FloatWithHalfDX(float16_compute, op, r) ==
    BwdVariant(float16_compute, op, r, "halfdx")

Bwd_NoThrow(float16_compute, op, r) ==
    BwdVariant(float16_compute, op, r, "fallthrough")

----------------------------------------------------------------------------
(* The forward dispatcher *)

RunFullyConnectedOpOnCUDADevice(float16_compute, op, r) ==
    IF InputIsType(op, "float") THEN
        ReturnDoRunWithType(float16_compute, <<>>, <<>>,
            FwdInst("float", "float", "float", "float", "float"), r)
    ELSE IF InputIsType(op, "float16") THEN
        IF float16_compute THEN
            LET prop == GetDeviceProperty(0) IN
            IF prop.major >= kFp16CUDADevicePropMajor THEN
                ReturnDoRunWithType(float16_compute, <<0>>, <<>>,
                    FwdInst("float16", "float16", "float16", "float16",
                            "float16"), r)
            ELSE
                ReturnDoRunWithType(float16_compute, <<0>>,
                    <<FallbackMessage>>,
                    FwdInst("float16", "float16", "float16", "float16",
                            "float"), r)
        ELSE
            ReturnDoRunWithType(float16_compute, <<>>, <<>>,
                FwdInst("float16", "float16", "float16", "float16",
                        "float"), r)
    ELSE
        CaffeThrow(float16_compute, UnsupportedType)

(* The backward dispatcher *)

RunFullyConnectedGradientOpOnCUDADevice(float16_compute, op, r) ==
    IF InputIsType(op, "float") THEN
        ReturnDoRunWithType(float16_compute, <<>>, <<>>,
            BwdInst("float", "float", "float", "float",
                    "float", "float", "float", "float"), r)
    ELSE IF InputIsType(op, "float16") THEN
        IF float16_compute THEN
            LET prop == GetDeviceProperty(0) IN
            IF prop.major >= kFp16CUDADevicePropMajor THEN
                ReturnDoRunWithType(float16_compute, <<0>>, <<>>,
                    BwdInst("float16", "float16", "float16", "float16",
                            "float16", "float16", "float16", "float16"), r)
            ELSE
                ReturnDoRunWithType(float16_compute, <<0>>,
                    <<FallbackMessage>>,
                    BwdInst("float16", "float16", "float16", "float16",
                            "float16", "float16", "float16", "float"), r)
        ELSE
            ReturnDoRunWithType(float16_compute, <<>>, <<>>,
                BwdInst("float16", "float16", "float16", "float16",
                        "float16", "float16", "float16", "float"), r)
    ELSE
        CaffeThrow(float16_compute, UnsupportedType)

----------------------------------------------------------------------------
(* State machine *)

Init ==
    /\ cudaVersion \in CudaVersions
    /\ devMajor \in [DeviceIds -> Majors]
    /\ input0 = "float"
    /\ ops = [k \in Kinds |-> NoOp]
    /\ call = [k \in Kinds |-> Idle]

AllIdle == \A k \in Kinds : call[k].pc = "idle"

\* engines an operator can be created with: the TENSORCORE registrations
\* exist only when CUDA_VERSION >= 9000
RegisteredEngines ==
    IF cudaVersion >= TensorCoreCudaVersion
    THEN Engines
    ELSE {"DefaultEngine"}

\* the registry creates an operator instance from its definition
CreateOperator ==
    /\ AllIdle
    /\ \E k \in Kinds, e \in RegisteredEngines, t \in BOOLEAN,
          f \in BOOLEAN, g \in DeviceIds :
          /\ ops[k] = NoOp
          /\ ops' = [ops EXCEPT ![k] =
                        [engine |-> e, TransposeWeight |-> t,
                         float16_compute_ |-> f, gpu_id |-> g]]
    /\ UNCHANGED <<cudaVersion, devMajor, input0, call>>

\* the net is destroyed together with its operators
DestroyNet ==
    /\ AllIdle
    /\ \E k \in Kinds : ops[k] # NoOp
    /\ ops' = [k \in Kinds |-> NoOp]
    /\ UNCHANGED <<cudaVersion, devMajor, input0, call>>

\* the host puts a tensor of some element type behind Input(0)
FeedInput ==
    /\ AllIdle
    /\ \E T \in ElementTypes : input0' = T /\ input0 # T
    /\ UNCHANGED <<cudaVersion, devMajor, ops, call>>

\* the host has taken the results of the step; the next step can start
FinishStep ==
    /\ ~AllIdle
    /\ call' = [k \in Kinds |-> Idle]
    /\ UNCHANGED <<cudaVersion, devMajor, input0, ops>>

\* guard shared by the RunOnDevice specialisations: the operator of kind k
\* was created with engine e and weight layout t, and is not running
Bound(k, e, t) ==
    /\ ops[k] # NoOp
    /\ ops[k].engine = e
    /\ ops[k].TransposeWeight = t
    /\ call[k].pc = "idle"

FullyConnectedOp_Default_RunOnDevice ==
    /\ Bound("FullyConnectedOp", "DefaultEngine", TRUE)
    /\ \E r \in BOOLEAN :
          call' = [call EXCEPT !["FullyConnectedOp"] =
              RunFullyConnectedOpOnCUDADevice(
                  ops["FullyConnectedOp"].float16_compute_,
                  ops["FullyConnectedOp"], r)]
    /\ UNCHANGED <<cudaVersion, devMajor, input0, ops>>

FullyConnectedOp_Default_NoTranspose_RunOnDevice ==
    /\ Bound("FullyConnectedOp", "DefaultEngine", FALSE)
    /\ \E r \in BOOLEAN :
          call' = [call EXCEPT !["FullyConnectedOp"] =
              RunFullyConnectedOpOnCUDADevice(
                  ops["FullyConnectedOp"].float16_compute_,
                  ops["FullyConnectedOp"], r)]
    /\ UNCHANGED <<cudaVersion, devMajor, input0, ops>>

FullyConnectedGradientOp_Default_RunOnDevice ==
    /\ Bound("FullyConnectedGradientOp", "DefaultEngine", TRUE)
    /\ \E r \in BOOLEAN :
          call' = [call EXCEPT !["FullyConnectedGradientOp"] =
              RunFullyConnectedGradientOpOnCUDADevice(
                  ops["FullyConnectedGradientOp"].float16_compute_,
                  ops["FullyConnectedGradientOp"], r)]
    /\ UNCHANGED <<cudaVersion, devMajor, input0, ops>>

FullyConnectedGradientOp_Default_NoTranspose_RunOnDevice ==
    /\ Bound("FullyConnectedGradientOp", "DefaultEngine", FALSE)
    /\ \E r \in BOOLEAN :
          call' = [call EXCEPT !["FullyConnectedGradientOp"] =
              RunFullyConnectedGradientOpOnCUDADevice(
                  ops["FullyConnectedGradientOp"].float16_compute_,
                  ops["FullyConnectedGradientOp"], r)]
    /\ UNCHANGED <<cudaVersion, devMajor, input0, ops>>

\* TensorCore binding that hands the operator's own flag to the dispatcher
FullyConnectedOp_TensorCore_PassesFlag ==
    /\ cudaVersion >= TensorCoreCudaVersion
    /\ Bound("FullyConnectedOp", "TensorCoreEngine", TRUE)
    /\ \E r \in BOOLEAN :
          call' = [call EXCEPT !["FullyConnectedOp"] =
              RunFullyConnectedOpOnCUDADevice(
                  ops["FullyConnectedOp"].float16_compute_,
                  ops["FullyConnectedOp"], r)]
    /\ UNCHANGED <<cudaVersion, devMajor, input0, ops>>

FullyConnectedOp_TensorCore_RunOnDevice ==
    /\ cudaVersion >= TensorCoreCudaVersion
    /\ Bound("FullyConnectedOp", "TensorCoreEngine", TRUE)
    /\ \E r \in BOOLEAN :
          call' = [call EXCEPT !["FullyConnectedOp"] =
              RunFullyConnectedOpOnCUDADevice(
                  FALSE, ops["FullyConnectedOp"], r)]
    /\ UNCHANGED <<cudaVersion, devMajor, input0, ops>>

FullyConnectedOp_TensorCore_NoTranspose_RunOnDevice ==
    /\ cudaVersion >= TensorCoreCudaVersion
    /\ Bound("FullyConnectedOp", "TensorCoreEngine", FALSE)
    /\ \E r \in BOOLEAN :
          call' = [call EXCEPT !["FullyConnectedOp"] =
              RunFullyConnectedOpOnCUDADevice(
                  FALSE, ops["FullyConnectedOp"], r)]
    /\ UNCHANGED <<cudaVersion, devMajor, input0, ops>>

FullyConnectedGradientOp_TensorCore_RunOnDevice ==
    /\ cudaVersion >= TensorCoreCudaVersion
    /\ Bound("FullyConnectedGradientOp", "TensorCoreEngine", TRUE)
    /\ \E r \in BOOLEAN :
          call' = [call EXCEPT !["FullyConnectedGradientOp"] =
              RunFullyConnectedGradientOpOnCUDADevice(
                  FALSE, ops["FullyConnectedGradientOp"], r)]
    /\ UNCHANGED <<cudaVersion, devMajor, input0, ops>>

FullyConnectedGradientOp_TensorCore_NoTranspose_RunOnDevice ==
    /\ cudaVersion >= TensorCoreCudaVersion
    /\ Bound("FullyConnectedGradientOp", "TensorCoreEngine", FALSE)
    /\ \E r \in BOOLEAN :
          call' = [call EXCEPT !["FullyConnectedGradientOp"] =
              RunFullyConnectedGradientOpOnCUDADevice(
                  FALSE, ops["FullyConnectedGradientOp"], r)]
    /\ UNCHANGED <<cudaVersion, devMajor, input0, ops>>

Next ==
    \/ CreateOperator
    \/ DestroyNet
    \/ FeedInput
    \/ FinishStep
    \/ FullyConnectedOp_Default_RunOnDevice
    \/ FullyConnectedOp_Default_NoTranspose_RunOnDevice
    \/ FullyConnectedGradientOp_Default_RunOnDevice
    \/ FullyConnectedGradientOp_Default_NoTranspose_RunOnDevice
    \/ FullyConnectedOp_TensorCore_RunOnDevice
    \/ FullyConnectedOp_TensorCore_NoTranspose_RunOnDevice
    \/ FullyConnectedGradientOp_TensorCore_RunOnDevice
    \/ FullyConnectedGradientOp_TensorCore_NoTranspose_RunOnDevice

Spec == Init /\ [][Next]_vars

TypeOK ==
    /\ cudaVersion \in CudaVersions
    /\ devMajor \in [DeviceIds -> Majors]
    /\ input0 \in ElementTypes
    /\ \A k \in Kinds : call[k].pc \in {"idle", "returned", "thrown"}

----------------------------------------------------------------------------
(* Vocabulary of the properties *)

Dispatched(k) == call[k].pc # "idle"

Returned(k) == call[k].pc = "returned" /\ Len(call[k].invoked) = 1

\* the instantiation the dispatch of ops[k] selected
Selected(k) == call[k].invoked[1]

DataRoles(inst) == DOMAIN inst \ {"Math"}

AllData(inst, T) == \A role \in DataRoles(inst) : inst[role] = T

\* bit width of an element type
Precision(T) == IF T = "float" THEN 32 ELSE 16

HalfInput(k) == Dispatched(k) /\ input0 = "float16"

----------------------------------------------------------------------------
(* Properties *)

C3_NoFlagNoQuery ==
    \A k \in Kinds :
        (HalfInput(k) /\ ~call[k].float16_compute)
        => /\ Returned(k)
           /\ AllData(Selected(k), "float16")
           /\ Selected(k).Math = "float"
           /\ call[k].queried = <<>>

C3_Witness ==
    /\ HalfInput("FullyConnectedOp")
    /\ ops["FullyConnectedOp"].engine = "DefaultEngine"
    /\ ~call["FullyConnectedOp"].float16_compute
    /\ \A d \in DeviceIds : devMajor[d] > kFp16CUDADevicePropMajor
    /\ Selected("FullyConnectedOp").Math = "float"
    /\ call["FullyConnectedOp"].queried = <<>>

\* C4: a dispatch of an operator created with the TensorCore engine, forward
\* or backward, transposed or not, is handed float16_compute = false whatever
\* the operator's own float16_compute_ is; it logs no fallback message and
\* invokes no instantiation whose Math is float16.
C4_TensorCoreNeverHalfMath ==
    \A k \in Kinds :
        (Dispatched(k) /\ ops[k].engine = "TensorCoreEngine")
        => /\ ~call[k].float16_compute
           /\ call[k].logged = <<>>
           /\ \A i \in 1 .. Len(call[k].invoked) :
                 call[k].invoked[i].Math # "float16"

C4_Witness ==
    /\ HalfInput("FullyConnectedOp")
    /\ ops["FullyConnectedOp"].engine = "TensorCoreEngine"
    /\ ops["FullyConnectedOp"].float16_compute_
    /\ devMajor[0] >= kFp16CUDADevicePropMajor
    /\ Returned("FullyConnectedOp")
    /\ Selected("FullyConnectedOp").Math = "float"

\* C5: a dispatch (forward or backward, any flag, any device revision) whose
\* Input(0) is neither float nor float16 throws "Unsupported type" and
\* invokes no instantiation of DoRunWithType.
C5_UnsupportedTypeThrows ==
    \A k \in Kinds :
        (Dispatched(k) /\ input0 \notin {"float", "float16"})
        => /\ call[k].pc = "thrown"
           /\ call[k].error = UnsupportedType
           /\ call[k].invoked = <<>>

C5_Witness ==
    /\ input0 \notin {"float", "float16"}
    /\ call["FullyConnectedOp"].pc = "thrown"
    /\ call["FullyConnectedGradientOp"].pc = "thrown"
    /\ ops["FullyConnectedGradientOp"].float16_compute_
    /\ call["FullyConnectedGradientOp"].invoked = <<>>

\* C6: in every invoked instantiation Math is float or equals the type of
\* every data role, so Math is never narrower than all the data roles; float
\* data roles are never paired with float16 Math.
C6_MathNotNarrower ==
    \A k \in Kinds :
        \A i \in 1 .. Len(call[k].invoked) :
            LET inst == call[k].invoked[i] IN
            /\ inst.Math = "float" \/ AllData(inst, inst.Math)
            /\ \E role \in DataRoles(inst) :
                  Precision(inst.Math) >= Precision(inst[role])
            /\ ~(AllData(inst, "float") /\ inst.Math = "float16")

C6_Witness ==
    /\ Returned("FullyConnectedOp")
    /\ Returned("FullyConnectedGradientOp")
    /\ AllData(Selected("FullyConnectedOp"), "float16")
    /\ Selected("FullyConnectedOp").Math = "float"
    /\ Selected("FullyConnectedGradientOp").Math = "float16"

\* C7: a dispatch either throws having invoked no instantiation, or invokes
\* exactly one instantiation once and returns the boolean that invocation
\* returned.
C7_OneInvocationResultPropagated ==
    \A k \in Kinds :
        Dispatched(k)
        => \/ /\ call[k].pc = "thrown"
              /\ call[k].invoked = <<>>
           \/ /\ call[k].pc = "returned"
              /\ Len(call[k].invoked) = 1
              /\ call[k].result = call[k].ret

C7_Witness ==
    /\ Returned("FullyConnectedOp")
    /\ Returned("FullyConnectedGradientOp")
    /\ call["FullyConnectedOp"].ret = FALSE
    /\ call["FullyConnectedOp"].result = FALSE
    /\ call["FullyConnectedGradientOp"].ret = TRUE
    /\ call["FullyConnectedGradientOp"].result = TRUE

\* C8: when the forward and the backward dispatcher are run on the same
\* Input(0) type and the same device revisions with the same float16_compute
\* argument, both throw or both return, both log the same messages, and the
\* roles X, W, B and Math have the same type in the two instantiations.
C8_ForwardBackwardAgree ==
    LET f == call["FullyConnectedOp"]
        b == call["FullyConnectedGradientOp"]
    IN  (f.pc # "idle" /\ b.pc # "idle"
            /\ f.float16_compute = b.float16_compute)
        => /\ f.pc = b.pc
           /\ f.error = b.error
           /\ f.logged = b.logged
           /\ Len(f.invoked) = Len(b.invoked)
           /\ \A i \in 1 .. Len(f.invoked) :
                 \A role \in {"X", "W", "B", "Math"} :
                     f.invoked[i][role] = b.invoked[i][role]

C8_Witness ==
    /\ Returned("FullyConnectedOp")
    /\ Returned("FullyConnectedGradientOp")
    /\ call["FullyConnectedOp"].float16_compute
    /\ call["FullyConnectedGradientOp"].float16_compute
    /\ input0 = "float16"
    /\ devMajor[0] = kFp16CUDADevicePropMajor
    /\ Selected("FullyConnectedOp").Math
           = Selected("FullyConnectedGradientOp").Math

\* C9: a dispatch of a float Input(0) invokes the all-float instantiation
\* (every data role and Math), whatever the flag, the engine and the device
\* revisions are, without querying a device property or logging.
C9_FloatInputAllFloat ==
    \A k \in Kinds :
        (Dispatched(k) /\ input0 = "float")
        => /\ Returned(k)
           /\ AllData(Selected(k), "float")
           /\ Selected(k).Math = "float"
           /\ call[k].queried = <<>>
           /\ call[k].logged = <<>>

C9_Witness ==
    /\ input0 = "float"
    /\ Returned("FullyConnectedGradientOp")
    /\ call["FullyConnectedGradientOp"].float16_compute
    /\ devMajor[0] < kFp16CUDADevicePropMajor
    /\ Returned("FullyConnectedOp")
    /\ ops["FullyConnectedOp"].engine = "TensorCoreEngine"
    /\ AllData(Selected("FullyConnectedGradientOp"), "float")

\* C10: a dispatch queries a device property exactly when Input(0) is
\* float16 and float16_compute is true, and the query is for device 0: Math
\* is float16 iff the major revision of device 0 reaches the threshold,
\* whatever the revision of the device the operator runs on.
C10_DeviceZeroDecides ==
    \A k \in Kinds :
        Dispatched(k)
        => /\ (call[k].queried # <<>>)
                  <=> (input0 = "float16" /\ call[k].float16_compute)
           /\ (call[k].queried # <<>>)
                  => /\ call[k].queried = <<0>>
                     /\ Returned(k)
                     /\ (Selected(k).Math = "float16")
                            <=> (devMajor[0] >= kFp16CUDADevicePropMajor)

C10_Witness ==
    /\ Returned("FullyConnectedOp")
    /\ ops["FullyConnectedOp"].gpu_id = 1
    /\ devMajor[1] < kFp16CUDADevicePropMajor
    /\ devMajor[0] >= kFp16CUDADevicePropMajor
    /\ call["FullyConnectedOp"].queried = <<0>>
    /\ Selected("FullyConnectedOp").Math = "float16"

====
